---- MODULE Spec2Model ----
(***************************************************************************)
(* A model of the Sudoku solver of sudoku.py: the static topology (units   *)
(* and peers), the Sudoku object (values, candidates, has_contradiction),  *)
(* its mutators set_digit / remove_candidate, the two selection functions  *)
(* get_hidden_single / get_next_coord and the generator solutions().       *)
(*                                                                         *)
(* Representation.  A coordinate is the two-character string built by      *)
(* key().  The candidates of a coordinate are, as in the source, a string  *)
(* of digit characters; the string is modelled as the sequence of its      *)
(* digits ("679" is <<6, 7, 9>>), so str(digit) is a one-element sequence, *)
(* `in` is membership in the sequence, replace(str(digit), "") filters the *)
(* digit out and len() is Len.  Python iterates a set in an order fixed by *)
(* the hashes of its elements, which str hash randomisation changes from   *)
(* one process to the next: the order is the parameter `order` of every    *)
(* operator that iterates a set.                                           *)
(***************************************************************************)
EXTENDS Integers, Sequences, FiniteSets, TLC

(***************************************************************************)
(* Program constants                                                       *)
(***************************************************************************)
Size == 9

BoxSize == 3

Digits == 1..Size

(***************************************************************************)
(* Bounds of the model                                                     *)
(***************************************************************************)
\* number of set iteration orders (hash seeds) a run may be started under
NumOrders == 2

\* number of puzzles of the catalogue Puzzles a run may be started on
NumPuzzles == 7

(***************************************************************************)
(* Static topology (module level of sudoku.py)                             *)
(***************************************************************************)
key(row, col) == ToString(row) \o ToString(col)

coords == {key(row, col) : row \in 0..(Size - 1), col \in 0..(Size - 1)}

\* the list comprehension's outer variable is col: one unit per col, holding
\* key(row, col) for every row
row_units == [i \in 1..Size |-> {key(row, i - 1) : row \in 0..(Size - 1)}]

\* the outer variable is row: one unit per row, holding key(row, col) for every col
col_units == [i \in 1..Size |-> {key(i - 1, col) : col \in 0..(Size - 1)}]

box_units ==
    [b \in 1..(BoxSize * BoxSize) |->
        LET box_row == (b - 1) \div BoxSize
            box_col == (b - 1) % BoxSize
        IN  {key(BoxSize * box_row + i, BoxSize * box_col + j) :
                i \in 0..(BoxSize - 1), j \in 0..(BoxSize - 1)}]

all_units == row_units \o col_units \o box_units

peers ==
    [coord \in coords |->
        UNION {all_units[u] \ {coord} :
                 u \in {v \in 1..Len(all_units) : coord \in all_units[v]}}]

(***************************************************************************)
(* Iteration order of Python sets                                          *)
(***************************************************************************)
\* the coordinate with row-major index n (0..80)
CoordAt(n) == key(n \div Size, n % Size)

\* Order k lists the coordinates with a stride of 3k - 2 over the row-major
\* indices; the stride is coprime to 81, so every coordinate is listed once.
\* Order 1 is row-major.
OrderSeq ==
    [k \in 1..NumOrders |->
        [j \in 1..(Size * Size) |-> CoordAt(((j - 1) * (3 * k - 2)) % (Size * Size))]]

\* `for x in S` under iteration order `order`: the elements of S as a sequence
Iter(S, order) == SelectSeq(OrderSeq[order], LAMBDA x : x \in S)

PeerSeq == [k \in 1..NumOrders |-> [coord \in coords |-> Iter(peers[coord], k)]]

(***************************************************************************)
(* Strings of digits                                                       *)
(***************************************************************************)
\* str(digit)
str(digit) == <<digit>>

\* str(digit) in s
Contains(s, digit) == \E i \in 1..Len(s) : s[i] = digit

\* s.replace(str(digit), "")
Replace(s, digit) == SelectSeq(s, LAMBDA x : x # digit)

\* the digits a candidate string holds
DigitSet(s) == {s[i] : i \in 1..Len(s)}

(***************************************************************************)
(* class Sudoku                                                            *)
(***************************************************************************)
\* get_candidates with range(1, 9) for range(1, 10): the digit 9 is never a candidate
get_candidates_short_range(values, coord) ==
    LET digit == values[coord]
        values_of_peers == {values[peer] : peer \in peers[coord]}
    IN  IF digit # 0 THEN str(digit)
        ELSE SelectSeq([n \in 1..(Size - 1) |-> n], LAMBDA n : n \notin values_of_peers)

\* get_candidates(coord) on a values dictionary
get_candidates(values, coord) ==
    LET digit == values[coord]
        values_of_peers == {values[peer] : peer \in peers[coord]}
    IN  IF digit # 0 THEN str(digit)
        ELSE SelectSeq([n \in 1..Size |-> n], LAMBDA n : n \notin values_of_peers)

get_candidate_dict(values) == [coord \in coords |-> get_candidates(values, coord)]

\* Sudoku(values): __init__ with candidates = None
Sudoku(values) ==
    [values |-> values,
     has_contradiction |-> FALSE,
     candidates |-> get_candidate_dict(values)]

\* self.copy(): __init__ with copies of both dictionaries
copy(self) ==
    [values |-> self.values,
     has_contradiction |-> FALSE,
     candidates |-> self.candidates]

(***************************************************************************)
(* set_digit and remove_candidate call each other.  The chain of calls is  *)
(* run as the interpreter runs it: `calls` is the call stack, one          *)
(* activation of set_digit per entry, each at a position of its for loop   *)
(* over the peers (idx) and either about to call remove_candidate for that *)
(* peer (pc "for") or back from it and at the test of has_contradiction    *)
(* (pc "if").  remove_candidate itself has no loop and runs in one piece   *)
(* up to its call of set_digit.                                            *)
(***************************************************************************)
\* a for loop that leaves out the first peer
Activation_skip_first(coord, digit) ==
    [coord |-> coord, digit |-> digit, idx |-> 2, pc |-> "for"]

Activation(coord, digit) == [coord |-> coord, digit |-> digit, idx |-> 1, pc |-> "for"]

\* lines 149-151 of set_digit without line 151: the candidates of coord are
\* not collapsed to the digit
enter_set_digit_no_collapse(m, coord, digit) ==
    [self |-> [m.self EXCEPT !.values[coord] = digit],
     calls |-> Append(m.calls, Activation(coord, digit))]

\* the call of set_digit(coord, digit) up to its for loop (lines 149-151)
enter_set_digit(m, coord, digit) ==
    [self |-> [m.self EXCEPT !.values[coord] = digit,
                             !.candidates[coord] = str(digit)],
     calls |-> Append(m.calls, Activation(coord, digit))]

\* remove_candidate without lines 142-143: an emptied candidate string does
\* not set has_contradiction
remove_candidate_no_flag(m, coord, digit) ==
    IF ~Contains(m.self.candidates[coord], digit) THEN m
    ELSE LET s1 == [m.self EXCEPT !.candidates[coord] = Replace(@, digit)]
         IN  IF Len(s1.candidates[coord]) = 1
               THEN enter_set_digit([m EXCEPT !.self = s1], coord, s1.candidates[coord][1])
             ELSE [m EXCEPT !.self = s1]

\* remove_candidate(coord, digit), up to its return or to the for loop of the
\* set_digit it calls
remove_candidate(m, coord, digit) ==
    IF ~Contains(m.self.candidates[coord], digit) THEN m
    ELSE LET s1 == [m.self EXCEPT !.candidates[coord] = Replace(@, digit)]
         IN  IF Len(s1.candidates[coord]) = 0
               THEN [m EXCEPT !.self = [s1 EXCEPT !.has_contradiction = TRUE]]
             ELSE IF Len(s1.candidates[coord]) = 1
               THEN enter_set_digit([m EXCEPT !.self = s1], coord, s1.candidates[coord][1])
             ELSE [m EXCEPT !.self = s1]

\* the for loop of set_digit without lines 154-155: no break on has_contradiction
peer_loop_no_break(m, order) ==
    LET n == Len(m.calls)
        top == m.calls[n]
        ps == PeerSeq[order][top.coord]
    IN  IF top.pc = "for"
          THEN IF top.idx > Len(ps) THEN [m EXCEPT !.calls = SubSeq(m.calls, 1, n - 1)]
               ELSE remove_candidate([m EXCEPT !.calls[n].pc = "if"], ps[top.idx], top.digit)
        ELSE [m EXCEPT !.calls[n].idx = top.idx + 1, !.calls[n].pc = "for"]

\* one step of the innermost activation of set_digit (lines 152-155): the call
\* of remove_candidate for the next peer, the test after it with its break,
\* the return at the end of the loop
peer_loop(m, order) ==
    LET n == Len(m.calls)
        top == m.calls[n]
        ps == PeerSeq[order][top.coord]
        return == [m EXCEPT !.calls = SubSeq(m.calls, 1, n - 1)]
    IN  IF top.pc = "for"
          THEN IF top.idx > Len(ps) THEN return
               ELSE remove_candidate([m EXCEPT !.calls[n].pc = "if"], ps[top.idx], top.digit)
        ELSE IF m.self.has_contradiction THEN return
        ELSE [m EXCEPT !.calls[n].idx = top.idx + 1, !.calls[n].pc = "for"]

RECURSIVE run(_, _, _), run_to_return(_, _, _)

\* at most 2^n steps of the call stack, fewer if it empties before
run(m, n, order) ==
    IF Len(m.calls) = 0 THEN m
    ELSE IF n = 0 THEN peer_loop(m, order)
    ELSE run(run(m, n - 1, order), n - 1, order)

\* the steps of the call stack until the outermost call returns
run_to_return(m, n, order) ==
    LET m1 == run(m, n, order)
    IN  IF Len(m1.calls) = 0 THEN m1.self ELSE run_to_return(m1, n + 1, order)

\* set_digit without line 151
set_digit_no_collapse(self, coord, digit, order) ==
    run_to_return(enter_set_digit_no_collapse([self |-> self, calls |-> <<>>], coord, digit),
                  0, order)

\* set_digit(coord, digit); returns the object after the call
set_digit(self, coord, digit, order) ==
    run_to_return(enter_set_digit([self |-> self, calls |-> <<>>], coord, digit), 0, order)

\* the value None
None == "None"

\* possible_coords of get_hidden_single for one digit and one unit
possible_coords(self, digit, unit, order) ==
    SelectSeq(Iter(unit, order),
              LAMBDA coord : self.values[coord] = 0
                             /\ Contains(self.candidates[coord], digit))

\* get_hidden_single(): the first (digit, unit) of the nested loops, digits
\* outermost, whose possible_coords has one element; the result is the tuple
\* <<digit, coord>>, or the empty tuple for None (the caller tests `if single`)
get_hidden_single(self, order) ==
    LET hit(digit, u) == Len(possible_coords(self, digit, all_units[u], order)) = 1
        hits == {p \in (1..Size) \X (1..Len(all_units)) : hit(p[1], p[2])}
    IN  IF hits = {} THEN <<>>
        ELSE LET first == CHOOSE p \in hits :
                            \A q \in hits : p[1] < q[1] \/ (p[1] = q[1] /\ p[2] <= q[2])
             IN  <<first[1], possible_coords(self, first[1], all_units[first[2]], order)[1]>>

\* get_next_coord with max() for min(): of several largest, max() keeps the first
get_next_coord_max(self, order) ==
    LET free == SelectSeq(OrderSeq[order], LAMBDA coord : self.values[coord] = 0)
        len(i) == Len(self.candidates[free[i]])
    IN  IF Len(free) = 0 THEN None
        ELSE free[CHOOSE i \in 1..Len(free) :
                    \A j \in 1..Len(free) : len(i) > len(j) \/ (len(i) = len(j) /\ i <= j)]

\* get_next_coord(): min() over the free coordinates in iteration order, the
\* key being the number of candidates; of several smallest, min() keeps the
\* first it meets
get_next_coord(self, order) ==
    LET free == SelectSeq(OrderSeq[order], LAMBDA coord : self.values[coord] = 0)
        len(i) == Len(self.candidates[free[i]])
    IN  IF Len(free) = 0 THEN None
        ELSE free[CHOOSE i \in 1..Len(free) :
                    \A j \in 1..Len(free) : len(i) < len(j) \/ (len(i) = len(j) /\ i <= j)]

RECURSIVE solutions(_, _), explore(_, _, _, _)

\* solutions() run to exhaustion: the sequence of the values of the yielded objects
solutions(self, order) ==
    LET single == get_hidden_single(self, order)
    IN  IF Len(single) # 0
          THEN LET s1 == set_digit(self, single[2], single[1], order)
               IN  IF ~s1.has_contradiction THEN solutions(s1, order) ELSE <<>>
        ELSE LET next_coord == get_next_coord(self, order)
             IN  IF next_coord = None THEN <<self.values>>
                 ELSE explore(self, next_coord, self.candidates[next_coord], order)

\* the for loop of solutions() over the candidates left to test
explore(self, next_coord, cands, order) ==
    IF Len(cands) = 0 THEN <<>>
    ELSE LET c == set_digit(copy(self), next_coord, Head(cands), order)
         IN  (IF ~c.has_contradiction THEN solutions(c, order) ELSE <<>>)
             \o explore(self, next_coord, Tail(cands), order)

\* the row and the column a coordinate was built from: the inverse of key
row_of == [coord \in coords |-> CHOOSE row \in 0..(Size - 1) :
                                  \E col \in 0..(Size - 1) : key(row, col) = coord]

col_of == [coord \in coords |-> CHOOSE col \in 0..(Size - 1) :
                                  \E row \in 0..(Size - 1) : key(row, col) = coord]

\* generate_from_board(board): values[key(row, col)] = board[row][col], the
\* rows and columns of board counted from 0
generate_from_board(board) ==
    Sudoku([coord \in coords |-> board[row_of[coord] + 1][col_of[coord] + 1]])

(***************************************************************************)
(* The input grids a run may be started on                                 *)
(***************************************************************************)
Puzzles ==
    <<
    \* 1: the grid of test_several_solutions: six solutions
        <<<<0, 0, 0, 0, 5, 0, 2, 0, 0>>,
           <<0, 0, 0, 0, 4, 7, 9, 0, 0>>,
           <<1, 0, 5, 0, 6, 0, 8, 0, 0>>,
           <<2, 4, 6, 0, 0, 0, 0, 0, 0>>,
           <<3, 0, 7, 0, 0, 0, 4, 0, 6>>,
           <<0, 0, 0, 0, 0, 0, 7, 5, 3>>,
           <<0, 0, 9, 0, 8, 0, 5, 0, 0>>,
           <<0, 0, 8, 2, 1, 0, 0, 0, 0>>,
           <<0, 0, 4, 0, 7, 0, 0, 0, 0>>>>,
    \* 2: a full grid with two 9s in row 0 (and in column 0 and box 0)
        <<<<9, 9, 3, 1, 5, 8, 2, 6, 7>>,
           <<8, 6, 2, 3, 4, 7, 9, 1, 5>>,
           <<1, 7, 5, 9, 6, 2, 8, 3, 4>>,
           <<2, 4, 6, 7, 3, 5, 1, 9, 8>>,
           <<3, 5, 7, 8, 9, 1, 4, 2, 6>>,
           <<9, 8, 1, 4, 2, 6, 7, 5, 3>>,
           <<7, 1, 9, 6, 8, 3, 5, 4, 2>>,
           <<5, 3, 8, 2, 1, 4, 6, 7, 9>>,
           <<6, 2, 4, 5, 7, 9, 3, 8, 1>>>>,
    \* 3: a solved grid with one unavoidable rectangle emptied: two solutions
        <<<<4, 9, 3, 1, 5, 0, 0, 6, 7>>,
           <<8, 6, 2, 3, 4, 7, 9, 1, 5>>,
           <<1, 7, 5, 9, 6, 0, 0, 3, 4>>,
           <<2, 4, 6, 7, 3, 5, 1, 9, 8>>,
           <<3, 5, 7, 8, 9, 1, 4, 2, 6>>,
           <<9, 8, 1, 4, 2, 6, 7, 5, 3>>,
           <<7, 1, 9, 6, 8, 3, 5, 4, 2>>,
           <<5, 3, 8, 2, 1, 4, 6, 7, 9>>,
           <<6, 2, 4, 5, 7, 9, 3, 8, 1>>>>,
    \* 4: puzzle 1 with a given added that no solution has: consistent givens, no solution
        <<<<0, 0, 0, 0, 5, 0, 2, 0, 0>>,
           <<0, 0, 0, 0, 4, 7, 9, 0, 0>>,
           <<1, 0, 5, 0, 6, 0, 8, 0, 0>>,
           <<2, 4, 6, 5, 0, 0, 0, 0, 0>>,
           <<3, 0, 7, 0, 0, 0, 4, 0, 6>>,
           <<0, 0, 0, 0, 0, 0, 7, 5, 3>>,
           <<0, 0, 9, 0, 8, 0, 5, 0, 0>>,
           <<0, 0, 8, 2, 1, 0, 0, 0, 0>>,
           <<0, 0, 4, 0, 7, 0, 0, 0, 0>>>>,
    \* 5: puzzle 1 with a second 5 put in row 0: no solution
        <<<<5, 0, 0, 0, 5, 0, 2, 0, 0>>,
           <<0, 0, 0, 0, 4, 7, 9, 0, 0>>,
           <<1, 0, 5, 0, 6, 0, 8, 0, 0>>,
           <<2, 4, 6, 0, 0, 0, 0, 0, 0>>,
           <<3, 0, 7, 0, 0, 0, 4, 0, 6>>,
           <<0, 0, 0, 0, 0, 0, 7, 5, 3>>,
           <<0, 0, 9, 0, 8, 0, 5, 0, 0>>,
           <<0, 0, 8, 2, 1, 0, 0, 0, 0>>,
           <<0, 0, 4, 0, 7, 0, 0, 0, 0>>>>,
    \* 6: puzzle 1 with two givens added: one solution
        <<<<0, 0, 0, 1, 5, 0, 2, 0, 0>>,
           <<0, 0, 0, 0, 4, 7, 9, 0, 0>>,
           <<1, 0, 5, 0, 6, 0, 8, 0, 0>>,
           <<2, 4, 6, 0, 0, 0, 0, 0, 0>>,
           <<3, 0, 7, 0, 0, 0, 4, 0, 6>>,
           <<0, 0, 0, 0, 0, 0, 7, 5, 3>>,
           <<0, 0, 9, 0, 8, 0, 5, 0, 0>>,
           <<0, 0, 8, 2, 1, 0, 0, 0, 0>>,
           <<0, 0, 4, 0, 7, 0, 0, 0, 1>>>>,
    \* 7: a solved grid with two cells emptied and one changed: the givens do not
    \* clash, and the empty cells have no candidate at construction
        <<<<0, 4, 3, 1, 5, 8, 2, 6, 7>>,
           <<8, 6, 2, 3, 4, 7, 9, 1, 5>>,
           <<1, 7, 5, 9, 6, 2, 8, 3, 4>>,
           <<2, 0, 6, 7, 3, 5, 1, 9, 8>>,
           <<3, 5, 7, 8, 9, 1, 4, 2, 6>>,
           <<9, 8, 1, 4, 2, 6, 7, 5, 3>>,
           <<7, 1, 9, 6, 8, 3, 5, 4, 2>>,
           <<5, 3, 8, 2, 1, 4, 6, 7, 9>>,
           <<6, 2, 4, 5, 7, 9, 3, 8, 1>>>>,
    \* 8: puzzle 2 with three cells emptied: two 9s in row 0, and the rest can be filled
        <<<<9, 9, 3, 1, 5, 8, 2, 6, 7>>,
           <<8, 6, 2, 3, 4, 7, 9, 1, 5>>,
           <<1, 7, 5, 9, 6, 2, 8, 3, 4>>,
           <<2, 4, 6, 7, 3, 5, 1, 9, 8>>,
           <<3, 5, 7, 8, 9, 1, 4, 2, 6>>,
           <<9, 8, 1, 4, 2, 6, 7, 5, 3>>,
           <<7, 1, 9, 6, 8, 3, 5, 4, 2>>,
           <<5, 3, 8, 2, 1, 4, 6, 7, 0>>,
           <<6, 2, 4, 5, 7, 9, 3, 0, 0>>>>
    >>

(***************************************************************************)
(* The state: one consumer driving one generator sudoku.solutions()        *)
(***************************************************************************)
VARIABLES
    puzzle,     \* index in Puzzles of the board given to generate_from_board
    sudoku,     \* the Sudoku object as generate_from_board returned it
    hash_order, \* the set iteration order of this process
    heap,       \* the live Sudoku objects, by object id; 1 is the caller's sudoku
    stack,      \* the frames of the nested generators, outermost first
    gen,        \* generator state: "created", "running", "suspended", "exhausted"
    emitted,    \* the values of the boards handed to the consumer, in order
    requests,   \* number of next() calls the consumer has made
    probe       \* <<>>, or one record: a call made on a board taken aside

vars == <<puzzle, sudoku, hash_order, heap, stack, gen, emitted, requests, probe>>

\* a new frame of solutions() on object id: no local is bound yet
Frame(id) == [self |-> id, pc |-> "start", next_coord |-> None, cands |-> <<>>, copy |-> 0]

\* the object ids the frames of stk refer to, and the caller's
Live(stk) == {1} \cup {stk[i].self : i \in 1..Len(stk)}
                 \cup ({stk[i].copy : i \in 1..Len(stk)} \ {0})

\* no object is allocated: `copy = self` for `copy = self.copy()`
NewIdAliased(stk) == stk[Len(stk)].self

\* the id of a newly allocated object
NewId(stk) == CHOOSE n \in 1..(Cardinality(Live(stk)) + 1) : n \notin Live(stk)

Top == stack[Len(stack)]

SetTop(f) == [stack EXCEPT ![Len(stack)] = f]

Init ==
    /\ puzzle \in 1..NumPuzzles
    /\ hash_order \in 1..NumOrders
    /\ sudoku = generate_from_board(Puzzles[puzzle])
    /\ heap = [id \in {1} |-> sudoku]
    /\ stack = <<>>
    /\ gen = "created"
    /\ emitted = <<>>
    /\ requests = 0
    /\ probe = <<>>

\* the consumer calls next(): the generator starts, or resumes after its yield
Request ==
    /\ gen \in {"created", "suspended"}
    /\ requests' = requests + 1
    /\ gen' = "running"
    /\ stack' = IF gen = "created" THEN <<Frame(1)>>
                ELSE SetTop([Top EXCEPT !.pc = "ret"])
    /\ UNCHANGED <<puzzle, sudoku, hash_order, heap, emitted, probe>>

\* the propagate step without line 178: the nested generator is started on
\* the board as it is
HiddenSingleNotSet ==
    /\ gen = "running"
    /\ Len(stack) > 0
    /\ Top.pc = "start"
    /\ Len(get_hidden_single(heap[Top.self], hash_order)) # 0
    /\ stack' = Append(SetTop([Top EXCEPT !.pc = "hs_wait"]), Frame(Top.self))
    /\ UNCHANGED <<puzzle, sudoku, hash_order, heap, gen, emitted, requests, probe>>

\* the propagate step on a clone: the hidden single is set on a copy of self
\* and the search goes on in a nested generator on the copy
HiddenSingleOnClone ==
    /\ gen = "running"
    /\ Len(stack) > 0
    /\ Top.pc = "start"
    /\ LET single == get_hidden_single(heap[Top.self], hash_order)
       IN  /\ Len(single) # 0
           /\ LET id == NewId(stack)
                  s1 == set_digit(copy(heap[Top.self]), single[2], single[1], hash_order)
                  top1 == [Top EXCEPT !.copy = id,
                                      !.pc = IF s1.has_contradiction THEN "ret" ELSE "hs_wait"]
                  stack1 == IF s1.has_contradiction THEN SetTop(top1)
                            ELSE Append(SetTop(top1), Frame(id))
              IN  /\ stack' = stack1
                  /\ heap' = [i \in Live(stack1) |-> IF i = id THEN s1 ELSE heap[i]]
    /\ UNCHANGED <<puzzle, sudoku, hash_order, gen, emitted, requests, probe>>

\* lines 175-181: a hidden single is set on self, and the search goes on in a
\* nested generator on the same object unless that meets a contradiction
HiddenSingle ==
    /\ gen = "running"
    /\ Len(stack) > 0
    /\ Top.pc = "start"
    /\ LET single == get_hidden_single(heap[Top.self], hash_order)
       IN  /\ Len(single) # 0
           /\ LET s1 == set_digit(heap[Top.self], single[2], single[1], hash_order)
              IN  /\ heap' = [heap EXCEPT ![Top.self] = s1]
                  /\ stack' = IF ~s1.has_contradiction
                                THEN Append(SetTop([Top EXCEPT !.pc = "hs_wait"]),
                                            Frame(Top.self))
                              ELSE SetTop([Top EXCEPT !.pc = "ret"])
    /\ UNCHANGED <<puzzle, sudoku, hash_order, gen, emitted, requests, probe>>

\* self is appended to a list and the generator goes on without suspending
EmitEager ==
    /\ gen = "running"
    /\ Len(stack) > 0
    /\ Top.pc = "start"
    /\ Len(get_hidden_single(heap[Top.self], hash_order)) = 0
    /\ get_next_coord(heap[Top.self], hash_order) = None
    /\ emitted' = Append(emitted, heap[Top.self].values)
    /\ stack' = SetTop([Top EXCEPT !.pc = "ret"])
    /\ UNCHANGED <<puzzle, sudoku, hash_order, heap, gen, requests, probe>>

\* lines 184-187: no coordinate is free: self is yielded and the generator suspends
Emit ==
    /\ gen = "running"
    /\ Len(stack) > 0
    /\ Top.pc = "start"
    /\ Len(get_hidden_single(heap[Top.self], hash_order)) = 0
    /\ get_next_coord(heap[Top.self], hash_order) = None
    /\ emitted' = Append(emitted, heap[Top.self].values)
    /\ stack' = SetTop([Top EXCEPT !.pc = "yielded"])
    /\ gen' = "suspended"
    /\ UNCHANGED <<puzzle, sudoku, hash_order, heap, requests, probe>>

\* lines 184-190: the free coordinate with the fewest candidates is taken and
\* the loop over its candidates starts
Branch ==
    /\ gen = "running"
    /\ Len(stack) > 0
    /\ Top.pc = "start"
    /\ Len(get_hidden_single(heap[Top.self], hash_order)) = 0
    /\ LET next_coord == get_next_coord(heap[Top.self], hash_order)
       IN  /\ next_coord # None
           /\ stack' = SetTop([Top EXCEPT !.pc = "loop",
                                          !.next_coord = next_coord,
                                          !.cands = heap[Top.self].candidates[next_coord]])
    /\ UNCHANGED <<puzzle, sudoku, hash_order, heap, gen, emitted, requests, probe>>

\* lines 190-194, one iteration: the candidate is set on a copy, and the search
\* goes on in a nested generator on the copy unless that meets a contradiction
Explore ==
    /\ gen = "running"
    /\ Len(stack) > 0
    /\ Top.pc = "loop"
    /\ Len(Top.cands) > 0
    /\ LET candidate == Head(Top.cands)
           rest == SetTop([Top EXCEPT !.copy = 0])
           id == NewId(rest)
           c == set_digit(copy(heap[Top.self]), Top.next_coord, candidate, hash_order)
           top1 == [Top EXCEPT !.cands = Tail(@), !.copy = id,
                               !.pc = IF c.has_contradiction THEN "loop" ELSE "loop_wait"]
           stack1 == IF c.has_contradiction THEN SetTop(top1)
                     ELSE Append(SetTop(top1), Frame(id))
       IN  /\ stack' = stack1
           /\ heap' = [i \in Live(stack1) |-> IF i = id THEN c ELSE heap[i]]
    /\ UNCHANGED <<puzzle, sudoku, hash_order, gen, emitted, requests, probe>>

\* the loop of line 190 has no candidate left: solutions() returns
LoopEnd ==
    /\ gen = "running"
    /\ Len(stack) > 0
    /\ Top.pc = "loop"
    /\ Len(Top.cands) = 0
    /\ stack' = SetTop([Top EXCEPT !.pc = "ret"])
    /\ UNCHANGED <<puzzle, sudoku, hash_order, heap, gen, emitted, requests, probe>>

\* a generator returns: its frame is dropped, `yield from` ends in the caller
\* (line 180 goes on to the return of line 181, line 194 to the next candidate),
\* and the outermost generator is exhausted
Return ==
    /\ gen = "running"
    /\ Len(stack) > 0
    /\ Top.pc = "ret"
    /\ LET popped == SubSeq(stack, 1, Len(stack) - 1)
           stack1 == IF Len(popped) = 0 THEN popped
                     ELSE [popped EXCEPT ![Len(popped)].pc =
                              IF @ = "hs_wait" THEN "ret" ELSE "loop"]
       IN  /\ stack' = stack1
           /\ heap' = [i \in Live(stack1) |-> heap[i]]
           /\ gen' = IF Len(popped) = 0 THEN "exhausted" ELSE gen
    /\ UNCHANGED <<puzzle, sudoku, hash_order, emitted, requests, probe>>

Next ==
    \/ Request
    \/ HiddenSingle
    \/ Emit
    \/ Branch
    \/ Explore
    \/ LoopEnd
    \/ Return

Spec == Init /\ [][Next]_vars

(***************************************************************************)
(* A board of the search taken aside and set_digit called on it twice      *)
(***************************************************************************)
\* the board the top frame has just been given or has just made: the board a
\* generator starts on, and a board left with a contradiction
ProbeTargets ==
    IF Len(stack) = 0 THEN {}
    ELSE IF Top.pc = "start" THEN {Top.self}
    ELSE IF Top.pc = "ret" /\ heap[Top.self].has_contradiction THEN {Top.self}
    ELSE IF Top.pc = "loop" /\ Top.copy # 0 /\ heap[Top.copy].has_contradiction
      THEN {Top.copy}
    ELSE {}

\* set_digit(coord, digit) with a candidate digit of coord, and the same call
\* again right after it returned
ProbeSetDigit ==
    /\ probe = <<>>
    /\ \E id \in ProbeTargets : \E coord \in coords :
         \E digit \in DigitSet(heap[id].candidates[coord]) :
            LET first == set_digit(heap[id], coord, digit, hash_order)
                second == set_digit(first, coord, digit, hash_order)
            IN  probe' = <<[coord |-> coord, digit |-> digit, before |-> heap[id],
                            first |-> first, second |-> second]>>
    /\ UNCHANGED <<puzzle, sudoku, hash_order, heap, stack, gen, emitted, requests>>

NextProbe ==
    \/ probe = <<>> /\ Next
    \/ ProbeSetDigit

SpecProbe == Init /\ [][NextProbe]_vars

\* the input grid of the run
(***************************************************************************)
(* A set_digit of the search run step by step: probe holds the call stack  *)
(* of the call and the board it works on                                   *)
(***************************************************************************)
\* the search is about to call set_digit: for a hidden single on the board
\* itself (line 178), for the next candidate of the branch coordinate on a
\* copy (lines 191-192)
CascadeStart ==
    /\ probe = <<>>
    /\ gen = "running"
    /\ Len(stack) > 0
    /\ LET single == get_hidden_single(heap[Top.self], hash_order)
           board == IF Top.pc = "start" THEN heap[Top.self] ELSE copy(heap[Top.self])
           coord == IF Top.pc = "start" THEN single[2] ELSE Top.next_coord
           digit == IF Top.pc = "start" THEN single[1] ELSE Head(Top.cands)
       IN  /\ \/ Top.pc = "start" /\ Len(single) # 0
              \/ Top.pc = "loop" /\ Len(Top.cands) > 0
           /\ probe' = <<[coord |-> coord, digit |-> digit, before |-> board,
                          m |-> enter_set_digit([self |-> board, calls |-> <<>>],
                                                coord, digit)]>>
    /\ UNCHANGED <<puzzle, sudoku, hash_order, heap, stack, gen, emitted, requests>>

\* one step of the call: remove_candidate for the next peer of the innermost
\* set_digit, the test after it, or a return
CascadeStep ==
    /\ probe # <<>>
    /\ Len(probe[1].m.calls) > 0
    /\ probe' = <<[probe[1] EXCEPT !.m = peer_loop(@, hash_order)]>>
    /\ UNCHANGED <<puzzle, sudoku, hash_order, heap, stack, gen, emitted, requests>>

NextCascade ==
    \/ probe = <<>> /\ Next
    \/ CascadeStart
    \/ CascadeStep

SpecCascade == Init /\ [][NextCascade]_vars

\* a running generator has a step to take: its innermost frame is at the start
\* of solutions() (and then has a hidden single, or no free coordinate, or a
\* branch coordinate), in the loop over the candidates, or at a return
RunningCanStep ==
    gen = "running" => Len(stack) > 0 /\ Top.pc \in {"start", "loop", "ret"}

\* The consumer asks for the next board whenever the generator waits for it,
\* the interpreter goes on with a generator that is running and with a
\* set_digit that has not returned.  The second condition is weak fairness of
\* the steps of the running generator, with "a step is enabled" written as
\* the state predicate it amounts to (RunningCanStep).
FairSpecCascade ==
    /\ SpecCascade
    /\ WF_vars(probe = <<>> /\ Request)
    /\ ([]<>(gen # "running" \/ probe # <<>>) \/ []<><<Next>>_vars)
    /\ WF_vars(CascadeStep)

Input == sudoku.values


(***************************************************************************)
(* Reference notions, stated on rows and columns and not on the units and  *)
(* peers of the program                                                    *)
(***************************************************************************)
SameRow(a, b) == row_of[a] = row_of[b]

SameCol(a, b) == col_of[a] = col_of[b]

SameBox(a, b) == /\ row_of[a] \div BoxSize = row_of[b] \div BoxSize
                 /\ col_of[a] \div BoxSize = col_of[b] \div BoxSize

\* the coordinates that must differ from coord in a Sudoku
RefPeers == [coord \in coords |->
               {c \in coords : c # coord /\ (SameRow(c, coord) \/ SameCol(c, coord)
                                              \/ SameBox(c, coord))}]

\* the 27 groups of a grid: its rows, its columns, its boxes
RefGroups ==
    {{c \in coords : row_of[c] = n} : n \in 0..(Size - 1)}
    \cup {{c \in coords : col_of[c] = n} : n \in 0..(Size - 1)}
    \cup {{c \in coords : row_of[c] \div BoxSize = i /\ col_of[c] \div BoxSize = j} :
            i \in 0..(BoxSize - 1), j \in 0..(BoxSize - 1)}

\* a full grid in which every row, column and box holds every digit exactly once
ValidGrid(values) ==
    \A g \in RefGroups : \A d \in Digits : Cardinality({c \in g : values[c] = d}) = 1

\* the grid agrees with the input on the input's non-zero cells
KeepsGivens(values, input) == \A c \in coords : input[c] # 0 => values[c] = input[c]

\* no two cells that must differ hold the same non-zero digit
ConsistentGivens(input) ==
    \A c \in coords : input[c] # 0 => \A p \in RefPeers[c] : input[p] # input[c]

\* two cells of one row hold the same non-zero digit
RowDuplicate(input) ==
    \E a, b \in coords : a # b /\ SameRow(a, b) /\ input[a] # 0 /\ input[a] = input[b]

RECURSIVE FillRow(_, _, _), Completions(_, _)
\* reference enumeration, one row: the grids that extend grid by filling the
\* empty cells of row rr from column cc on, one cell at a time, with every
\* digit that none of the cell's row, column and box holds yet
FillRow(grid, rr, cc) ==
    IF cc = Size THEN {grid}
    ELSE LET cell == key(rr, cc)
         IN  IF grid[cell] # 0 THEN FillRow(grid, rr, cc + 1)
             ELSE UNION {FillRow([grid EXCEPT ![cell] = dd], rr, cc + 1) :
                           dd \in {ee \in Digits : \A pp \in RefPeers[cell] : grid[pp] # ee}}

\* reference enumeration: the full grids that extend a grid of GG, whose rows
\* before rw are full, row by row
Completions(GG, rw) ==
    IF rw = Size THEN GG
    ELSE Completions(UNION {FillRow(gg, rw, 0) : gg \in GG}, rw + 1)

\* all valid completions of an input grid
ValidCompletions(input) == IF ConsistentGivens(input) THEN Completions({input}, 0) ELSE {}

Emitted == {emitted[i] : i \in 1..Len(emitted)}

(***************************************************************************)
(* Claims                                                                  *)
(***************************************************************************)

\* C1 (as claimed): every emitted board has every digit exactly once in each
\* row, column and box, and holds the input's digit in every cell the input
\* gives.
Soundness ==
    \A i \in 1..Len(emitted) : ValidGrid(emitted[i]) /\ KeepsGivens(emitted[i], Input)

\* C1, on inputs whose givens do not clash: the same statement (not a claim's
\* formula; it locates the failure of Soundness in the inputs with clashing givens)
SoundnessOnConsistentInput == ConsistentGivens(Input) => Soundness

\* C2 (as claimed): once the generator is exhausted, the set of emitted grids
\* is the set of valid completions of the input found by the reference
\* enumeration.
Completeness == gen = "exhausted" => Emitted = ValidCompletions(Input)

\* C2, on inputs whose givens do not clash
CompletenessOnConsistentInput == ConsistentGivens(Input) => Completeness

\* C3 (as claimed): on an input grid with two equal non-zero digits in one row,
\* no board is ever emitted.
NothingEmittedOnRowDuplicate == RowDuplicate(Input) => Len(emitted) = 0

\* C6 (as claimed): the sequence a run emits is a function of the input grid
\* alone: an exhausted run under any set iteration order has emitted the
\* sequence the run under iteration order 1 emits.
Determinism ==
    gen = "exhausted" => emitted = solutions(sudoku, 1)

\* C6, the part that holds: the set of emitted grids does not depend on the order
DeterminismOfSet ==
    gen = "exhausted" =>
        Emitted = LET ss == solutions(sudoku, 1)
                  IN  {ss[i] : i \in 1..Len(ss)}

\* the state machine and the recursive definition of solutions() agree
MachineIsSolutions ==
    gen = "exhausted" => emitted = solutions(sudoku, hash_order)

\* C9 (as claimed): an exhausted run has emitted as many boards as the input
\* has valid completions, and no grid twice.
EmittedExactlyOnce ==
    gen = "exhausted" =>
        /\ Len(emitted) = Cardinality(ValidCompletions(Input))
        /\ \A i, j \in 1..Len(emitted) : emitted[i] = emitted[j] => i = j

\* C9, on inputs whose givens do not clash
EmittedExactlyOnceOnConsistentInput == ConsistentGivens(Input) => EmittedExactlyOnce

NonMutationOnBranch ==
    [][\A i \in 1..Len(stack) :
          (/\ stack[i].pc \in {"loop", "loop_wait"}
           /\ i <= Len(stack')
           /\ stack'[i].pc \in {"loop", "loop_wait", "ret"})
          => heap'[stack'[i].self] = heap[stack[i].self]]_vars

\* C4 witness: one candidate has been explored on a copy that differs from the
\* branching board, and a sibling candidate is still to be explored
NonMutationOnBranchWitness ==
    \E i \in 1..Len(stack) :
        /\ stack[i].pc = "loop"
        /\ stack[i].copy # 0
        /\ Len(stack[i].cands) > 0
        /\ heap[stack[i].copy].values # heap[stack[i].self].values

\* C5 (as claimed): the board solutions() was called on has, after every step
\* and after the whole enumeration, the values and candidates it was constructed with.
CallerBoardUnchanged ==
    /\ heap[1].values = sudoku.values
    /\ heap[1].candidates = sudoku.candidates

\* C5 (amended): the propagate step forces the hidden single on the board
\* itself, not on a clone, and the search goes on on that same board: the step
\* fills the empty coordinate of the hidden single, changes no non-zero value,
\* adds no candidate, allocates no object and leaves every other board
\* unchanged; the nested generator runs on the same object unless the board
\* now has a contradiction, and then the generator returns.
HiddenSingleInPlace ==
    [][(/\ gen = "running"
        /\ Len(stack) > 0
        /\ Top.pc = "start"
        /\ Len(get_hidden_single(heap[Top.self], hash_order)) # 0)
       => LET id == Top.self
              single == get_hidden_single(heap[id], hash_order)
          IN  /\ DOMAIN heap' = DOMAIN heap
              /\ \A j \in DOMAIN heap \ {id} : heap'[j] = heap[j]
              /\ heap[id].values[single[2]] = 0
              /\ heap'[id].values[single[2]] = single[1]
              /\ \A c \in coords :
                    /\ heap[id].values[c] # 0 => heap'[id].values[c] = heap[id].values[c]
                    /\ DigitSet(heap'[id].candidates[c]) \subseteq DigitSet(heap[id].candidates[c])
              /\ IF heap'[id].has_contradiction
                   THEN Len(stack') = Len(stack) /\ stack'[Len(stack')].pc = "ret"
                 ELSE /\ Len(stack') = Len(stack) + 1
                      /\ stack'[Len(stack')] = Frame(id)]_vars

\* C5 witness: the enumeration is over and the caller's board is not the
\* board it was constructed as
HiddenSingleInPlaceWitness ==
    /\ gen = "exhausted"
    /\ heap[1].values # sudoku.values
    /\ heap[1].candidates # sudoku.candidates

\* C7 (as claimed): a second set_digit(C, d) right after the first leaves
\* values, candidates and has_contradiction as the first call left them.
SetDigitIdempotent == probe # <<>> => probe[1].second = probe[1].first

\* C7 (amended): the second call leaves values and has_contradiction as the
\* first call left them, and every candidate set too except, at most, that of
\* C: the first call leaves candidates[C] either {d} or, only when it ended in
\* a contradiction, empty, and after the second call candidates[C] is {d}.
SetDigitIdempotentButAtCoord ==
    probe # <<>> =>
        LET p == probe[1]
        IN  /\ p.second.values = p.first.values
            /\ p.second.has_contradiction = p.first.has_contradiction
            /\ \A c \in coords \ {p.coord} : p.second.candidates[c] = p.first.candidates[c]
            /\ p.second.candidates[p.coord] = str(p.digit)
            /\ p.first.candidates[p.coord] \in {str(p.digit), <<>>}
            /\ ~p.first.has_contradiction => p.second = p.first

\* C7 witness: a first call that ended in a contradiction with the candidates
\* of C emptied, on a board that had no contradiction, and the second call made
SetDigitIdempotentButAtCoordWitness ==
    /\ probe # <<>>
    /\ ~probe[1].before.has_contradiction
    /\ probe[1].first.has_contradiction
    /\ probe[1].first.candidates[probe[1].coord] = <<>>
    /\ probe[1].second # probe[1].first

\* C8: the generator works only on demand: a step that changes a frame or a
\* board (a copy, a set_digit, a return) is taken only while a request of the
\* consumer is not yet answered.
Laziness == [][(heap' # heap \/ stack' # stack) => requests' > Len(emitted)]_vars

\* C8 witness: the generator is suspended after a solution, and a frame of the
\* search still has candidates of its branch coordinate that were neither
\* copied nor set
LazinessWitness ==
    /\ gen = "suspended"
    /\ Len(emitted) >= 1
    /\ requests = Len(emitted)
    /\ \E i \in 1..Len(stack) : stack[i].pc = "loop_wait" /\ Len(stack[i].cands) > 0

(***************************************************************************)
(* Rows, columns and boxes read off the coordinates themselves             *)
(***************************************************************************)
RefRows == {{c \in coords : row_of[c] = r} : r \in 0..(Size - 1)}

RefCols == {{c \in coords : col_of[c] = r} : r \in 0..(Size - 1)}

RefBoxes ==
    {{c \in coords : /\ row_of[c] \div BoxSize = br
                      /\ col_of[c] \div BoxSize = bc} :
        br \in 0..(BoxSize - 1), bc \in 0..(BoxSize - 1)}

\* the units of a list of units, as a set
UnitSet(units) == {units[i] : i \in 1..Len(units)}

\* C11 (as claimed): row_units is the 9 rows, col_units the 9 columns,
\* box_units the 9 disjoint boxes, and all_units these 27 sets of 9 coordinates,
\* as the module globals stand when a board is constructed and later.
StaticTopology ==
    /\ DOMAIN sudoku.values = coords
    /\ UnitSet(row_units) = RefRows
    /\ UnitSet(col_units) = RefCols
    /\ UnitSet(box_units) = RefBoxes
    /\ \A i, j \in 1..Len(box_units) : i # j => box_units[i] \cap box_units[j] = {}
    /\ Len(all_units) = 3 * Size
    /\ UnitSet(all_units) = RefRows \cup RefCols \cup RefBoxes
    /\ \A i \in 1..Len(all_units) : Cardinality(all_units[i]) = Size

\* what the lists hold: row_units the columns and col_units the rows, the
\* i-th of each list at index i; the boxes and the 27 units as a whole are right
StaticTopologyNamesSwapped ==
    /\ DOMAIN sudoku.values = coords
    /\ \A i \in 1..Size : row_units[i] = {c \in coords : col_of[c] = i - 1}
    /\ \A i \in 1..Size : col_units[i] = {c \in coords : row_of[c] = i - 1}
    /\ UnitSet(box_units) = RefBoxes
    /\ \A i, j \in 1..Len(box_units) : i # j => box_units[i] \cap box_units[j] = {}
    /\ Len(all_units) = 3 * Size
    /\ UnitSet(all_units) = RefRows \cup RefCols \cup RefBoxes
    /\ \A i \in 1..Len(all_units) : Cardinality(all_units[i]) = Size

\* the boards of a state: the objects of the search and, when set_digit was
\* called twice on one of them, the board after each call
Boards ==
    {heap[i] : i \in DOMAIN heap}
    \cup (IF probe = <<>> THEN {} ELSE {probe[1].first, probe[1].second})

\* C12 (as claimed): on every board, whatever the input and contradictory
\* boards included, two peers that both hold a non-zero value hold different values.
PeerValuesDiffer == \A b \in Boards : ConsistentGivens(b.values)

\* the same on the boards reached from givens that do not clash
PeerValuesDifferFromConsistentInput == ConsistentGivens(Input) => PeerValuesDiffer

\* the same on the boards without contradiction reached from givens that do not clash
PeerValuesDifferOnLiveBoards ==
    ConsistentGivens(Input) =>
        \A b \in Boards : ~b.has_contradiction => ConsistentGivens(b.values)

\* some coordinate of the board has no candidate left
EmptyCandidates(b) == \E c \in coords : Len(b.candidates[c]) = 0

\* C13 (as claimed): on every board, the board right after construction from
\* any input included, has_contradiction is true whenever the candidate set of
\* some coordinate is empty.
ContradictionFlagged == \A b \in Boards : EmptyCandidates(b) => b.has_contradiction

\* the same for the runs whose board has a candidate for every coordinate at construction
ContradictionFlaggedAfterConstruction ==
    ~EmptyCandidates(sudoku) => ContradictionFlagged

\* C14 (as claimed): on every board, contradictory boards included, every
\* coordinate with a non-zero value has exactly that value as its candidates.
FilledCandidates ==
    \A b \in Boards : \A c \in coords :
        b.values[c] # 0 => b.candidates[c] = str(b.values[c])

\* C14 (amended): on every board without contradiction every coordinate with a
\* non-zero value has exactly that value as its candidates; on a board with
\* has_contradiction set its candidates are that value or, where the cascade
\* removed the value again, empty.
FilledCandidatesUnlessContradiction ==
    \A b \in Boards : \A c \in coords :
        b.values[c] # 0 =>
            \/ b.candidates[c] = str(b.values[c])
            \/ b.has_contradiction /\ b.candidates[c] = <<>>

\* C14 witness: a set_digit has returned without contradiction after its
\* cascade gave a value to a further coordinate that had several candidates
FilledCandidatesUnlessContradictionWitness ==
    /\ probe # <<>>
    /\ ~probe[1].first.has_contradiction
    /\ \E c \in coords \ {probe[1].coord} :
          /\ probe[1].before.values[c] = 0
          /\ probe[1].first.values[c] # 0
          /\ Len(probe[1].before.candidates[c]) > 1

\* C15: on every board without contradiction that the search holds between
\* steps (the constructed board, and every board after a set_digit of the
\* search returned with has_contradiction false), no candidate of an empty
\* coordinate is the value of one of its peers.
CandidatesConsistentWithPeers ==
    \A i \in DOMAIN heap :
        ~heap[i].has_contradiction =>
            \A c \in coords :
                heap[i].values[c] = 0 =>
                    \A p \in RefPeers[c] :
                        heap[i].values[p] # 0 =>
                            heap[i].values[p] \notin DigitSet(heap[i].candidates[c])

\* C15 witness: a board without contradiction on which the search has set a
\* digit, with an empty coordinate that still has candidates and has a peer
\* whose value was set by the search
CandidatesConsistentWithPeersWitness ==
    \E i \in DOMAIN heap :
        /\ ~heap[i].has_contradiction
        /\ \E c \in coords :
              /\ heap[i].values[c] = 0
              /\ Len(heap[i].candidates[c]) > 0
              /\ \E p \in RefPeers[c] : heap[i].values[p] # 0 /\ sudoku.values[p] = 0

\* the call run step by step returns the board set_digit returns
CascadeIsSetDigit ==
    (probe # <<>> /\ Len(probe[1].m.calls) = 0) =>
        probe[1].m.self = set_digit(probe[1].before, probe[1].coord, probe[1].digit,
                                    hash_order)

\* C16: within one set_digit of the search, once has_contradiction is set every
\* further step is a return of the innermost set_digit (its loop stops before
\* the next removal) and leaves values, candidates and the flag of the board
\* as they were when the flag was set, up to the return of the outermost call.
NoChangeAfterContradiction ==
    [][(probe # <<>> /\ probe[1].m.self.has_contradiction) =>
          /\ probe'[1].m.self = probe[1].m.self
          /\ probe'[1].m.calls =
                SubSeq(probe[1].m.calls, 1, Len(probe[1].m.calls) - 1)]_vars

\* C16 witness: the flag is set while a nested set_digit is running, and the
\* loop of the outermost set_digit has peers it has not come to
NoChangeAfterContradictionWitness ==
    /\ probe # <<>>
    /\ ~probe[1].before.has_contradiction
    /\ probe[1].m.self.has_contradiction
    /\ Len(probe[1].m.calls) >= 2
    /\ probe[1].m.calls[1].idx < Cardinality(peers[probe[1].m.calls[1].coord])
    /\ \E c \in peers[probe[1].m.calls[1].coord] :
          Contains(probe[1].m.self.candidates[c], probe[1].m.calls[1].digit)

\* the number of empty cells of a board
Empties(b) == Cardinality({c \in coords : b.values[c] = 0})

\* C17: every set_digit of the search returns; solutions() asked for boards
\* until it is exhausted does get exhausted; and the board a nested generator
\* is started on (after a hidden single, for a candidate of the branch
\* coordinate) has fewer empty cells than the board of the generator that
\* starts it had before the step.
Termination ==
    /\ <>(gen = "exhausted" \/ probe # <<>>)
    /\ [](probe # <<>> => <>(probe # <<>> /\ Len(probe[1].m.calls) = 0))
    /\ [][(Len(stack) > 0 /\ Len(stack') = Len(stack) + 1) =>
            Empties(heap'[stack'[Len(stack')].self]) < Empties(heap[Top.self])]_vars

\* C17 witness: the generator is exhausted after it emitted several boards
\* from nested generators started for hidden singles and for candidates
TerminationWitness ==
    /\ gen = "exhausted"
    /\ Len(emitted) >= 2
    /\ Empties(heap[1]) < Empties(sudoku)
    /\ Empties(heap[1]) > 0

\* the rows, the columns and the boxes in the order of their index, read off
\* the coordinates
RowSeq == [i \in 1..Size |-> {c \in coords : row_of[c] = i - 1}]

ColSeq == [i \in 1..Size |-> {c \in coords : col_of[c] = i - 1}]

BoxSeq ==
    [i \in 1..Size |-> {c \in coords : /\ row_of[c] \div BoxSize = (i - 1) \div BoxSize
                                        /\ col_of[c] \div BoxSize = (i - 1) % BoxSize}]

\* the empty coordinates of a unit whose candidates contain the digit
Places(b, digit, unit) ==
    {c \in unit : b.values[c] = 0 /\ Contains(b.candidates[c], digit)}

\* the first (digit, unit) with exactly one place, digits in the outer scan and
\* units in the order of the list, as <<digit, coordinate>>; <<>> if there is none
FirstHit(b, units) ==
    LET hits == {h \in Digits \X (1..Len(units)) :
                    Cardinality(Places(b, h[1], units[h[2]])) = 1}
    IN  IF hits = {} THEN <<>>
        ELSE LET h == CHOOSE h \in hits :
                          \A g \in hits : h[1] < g[1] \/ (h[1] = g[1] /\ h[2] <= g[2])
             IN  <<h[1], CHOOSE c \in Places(b, h[1], units[h[2]]) : TRUE>>

\* C18 (as claimed): get_hidden_single returns None exactly when no digit has
\* exactly one place in a unit, and otherwise the first hit with the digits
\* scanned 1 to 9 and, for each digit, the 9 rows, then the 9 columns, then the
\* 9 boxes.
HiddenSingleRowsFirst ==
    \A i \in DOMAIN heap :
        get_hidden_single(heap[i], hash_order) = FirstHit(heap[i], RowSeq \o ColSeq \o BoxSeq)

\* what it returns: the first hit with the 9 columns scanned before the 9 rows
HiddenSingleColumnsFirst ==
    \A i \in DOMAIN heap :
        get_hidden_single(heap[i], hash_order) = FirstHit(heap[i], ColSeq \o RowSeq \o BoxSeq)

\* C19: get_next_coord returns None exactly when no coordinate has value 0,
\* and otherwise a coordinate with value 0 that has no more candidates than any
\* other coordinate with value 0; a board is emitted only when it has no
\* coordinate with value 0, and the search branches only on a coordinate with
\* value 0.
NextCoordFewestCandidates ==
    /\ \A i \in DOMAIN heap :
          LET next_coord == get_next_coord(heap[i], hash_order)
              free == {c \in coords : heap[i].values[c] = 0}
          IN  /\ next_coord = None <=> free = {}
              /\ next_coord # None =>
                    /\ next_coord \in free
                    /\ \A c \in free : Len(heap[i].candidates[next_coord])
                                          <= Len(heap[i].candidates[c])
    /\ \A k \in 1..Len(stack) :
          /\ stack[k].pc = "yielded" =>
                /\ \A c \in coords : heap[stack[k].self].values[c] # 0
                /\ emitted[Len(emitted)] = heap[stack[k].self].values
          /\ stack[k].pc \in {"loop", "loop_wait"} =>
                /\ stack[k].next_coord \in coords
                /\ heap[stack[k].self].values[stack[k].next_coord] = 0

\* C19 witness: the search has branched on a coordinate while another empty
\* coordinate has more candidates, and a third as few
NextCoordFewestCandidatesWitness ==
    \E k \in 1..Len(stack) :
        /\ stack[k].pc = "loop"
        /\ LET b == heap[stack[k].self]
               n == Len(b.candidates[stack[k].next_coord])
           IN  /\ \E c \in coords : b.values[c] = 0 /\ Len(b.candidates[c]) > n
               /\ \E c \in coords \ {stack[k].next_coord} :
                     b.values[c] = 0 /\ Len(b.candidates[c]) = n

====
